---- MODULE Spec2Model ----
(***************************************************************************)
(* Model of the cluster supervisor of config/loadBalancer.js (class        *)
(* LoadBalancer) together with the production start script that drives it  *)
(* (the master branch and the worker message handler).                     *)
(*                                                                         *)
(* The master is single threaded: every handler below is one atomic step.  *)
(* Worker processes are modelled by what the master can observe of them:   *)
(* a forked worker runs until it ends, and its end is reported to the      *)
(* master by one 'disconnect' and one 'exit' event, in either order.       *)
(***************************************************************************)
EXTENDS Integers, Sequences, FiniteSets, TLC

\* os.cpus().length of the modelled host
NumCPUs == 2
\* largest count passed to scaleWorkers
MaxCount == 3
\* number of worker ends the master gets to see
MaxEnds == 2
\* number of operator calls and signals
MaxOps == 2
\* number of worker crashes when nothing but crashes ends a worker
MaxCrashes == 3
\* largest configured CLUSTER_WORKERS
MaxConfigured == 3
\* requests one worker process accepts
MaxRequests == 3
\* health replies one worker process sends
MaxReplies == 2

VARIABLES
    clusterWorkers, \* process.env.CLUSTER_WORKERS: <<>> when unset, else <<n>>
    env,            \* process.env.NODE_ENV and process.env.ENABLE_CLUSTER
    wk,             \* the worker process: its server, requests and exit
    isMaster,       \* this.isMaster
    started,        \* startMaster has installed the handlers and timers
    workers,        \* this.workers: Map id -> worker, as the sequence of keys
    nextId,         \* id the next cluster.fork() gives
    st,             \* per forked worker: "run", "disc", "exit", "gone"
    killed,         \* the workers sent a SIGTERM by worker.kill
    shutdownMsgs,   \* per forked worker: number of 'shutdown' messages sent
    timers,         \* dead workers whose 1000 ms replacement timer is pending
    aged,           \* pending timers that have already seen a health tick
    waits,          \* per shutdownGracefully call: the workers it awaits
                    \* (k) and those whose promise is still pending (left)
    procExited,     \* the master process has ended (process.exit(0), or an
                    \* exception nobody caught)
    ends,           \* worker ends seen so far
    ops,            \* operator calls and signals so far
    hist,           \* observation of what has happened so far
    last            \* observation of the last handler run

masterVars == <<isMaster, started, workers, nextId, st, killed, shutdownMsgs,
                timers, aged, waits, procExited, ends, ops, hist, last>>

vars == <<clusterWorkers, env, wk, masterVars>>

Signals == {"SIGTERM", "SIGINT"}

Forked == 1..(nextId - 1)

Range(s) == {s[i] : i \in 1..Len(s)}

\* a removal that removes nothing
MapDeleteNone(s, w) == s

\* a removal that drops the oldest entry, whatever the key
MapDeleteFirst(s, w) == IF s = <<>> THEN s ELSE Tail(s)

\* Map.prototype.delete: drop the key, keep the order of the others
MapDelete(s, w) == SelectSeq(s, LAMBDA x : x # w)

\* a registry that lists a key again when it is set again
MapSetAppend(s, w) == Append(s, w)

\* Map.prototype.set: a new key goes last, an existing key keeps its place
MapSet(s, w) == IF w \in Range(s) THEN s ELSE Append(s, w)

\* worker.process.connected: the IPC channel has not been seen closed
Connected(w) == st[w] \in {"run", "exit"}

\* a worker ended on its own: no signal and no 'shutdown' message was sent
Crashed(w) == st[w] # "run" /\ w \notin killed /\ shutdownMsgs[w] = 0

\* a guard that lets every process through
MasterAlways == TRUE

\* this.isMaster as the operations test it: if (!this.isMaster) return
Master == isMaster

NoLast == [op |-> "none", arg |-> 0, size0 |-> 0, forked |-> {},
           signalled |-> {}, messaged |-> {}]

NoHist == [scaleKilled |-> {}, restartKilled |-> {}, replaced |-> {},
           shutdown |-> FALSE, scaleN |-> -1, scaleK |-> -1,
           online |-> {}, thrown |-> FALSE]

\* the worker path of this process before it has run: nothing loaded, the
\* IPC channel to the master open
WorkerBoot == [phase |-> "off", code |-> -1, cause |-> "none",
               channel |-> "open",
               inflight |-> 0, served |-> 0, dropped |-> 0, replies |-> 0]

\* the environments: NODE_ENV and ENABLE_CLUSTER, each set or unset
Envs == [nodeEnv : {"unset", "development", "production", "test"},
         enableCluster : {"unset", "true", "false"}]

\* NODE_ENV=production, ENABLE_CLUSTER unset: the production start
Production == [nodeEnv |-> "production", enableCluster |-> "unset"]

\* value.NODE_ENV: Joi's default is 'development'
NodeEnv(e) == IF e.nodeEnv = "unset" THEN "development" ELSE e.nodeEnv

\* ENABLE_CLUSTER as the variable alone gives it (Joi's default is true)
EnableClusterRaw(e) == e.enableCluster # "false"

\* validateEnv: value.ENABLE_CLUSTER, forced by production and development
EnableCluster(e) ==
    IF NodeEnv(e) = "production" THEN TRUE
    ELSE IF NodeEnv(e) = "development" THEN FALSE
    ELSE e.enableCluster # "false"

\* the role test of the start script: cluster.isMaster && env.ENABLE_CLUSTER
Supervises == isMaster /\ EnableCluster(env)

\* the role test of the server module:
\* cluster.isMaster && process.env.NODE_ENV === 'production'
ServerForks == isMaster /\ env.nodeEnv = "production"

\* the values CLUSTER_WORKERS can have: unset, or a number Joi accepts
Configs == {<<>>} \cup {<<n>> : n \in 1..MaxConfigured}

InitWith(configs, envs) ==
    /\ clusterWorkers \in configs
    /\ env \in envs
    /\ wk = WorkerBoot
    /\ isMaster \in BOOLEAN
    /\ started = FALSE
    /\ workers = <<>>
    /\ nextId = 1
    /\ st = <<>>
    /\ killed = {}
    /\ shutdownMsgs = <<>>
    /\ timers = {}
    /\ aged = {}
    /\ waits = {}
    /\ procExited = FALSE
    /\ ends = 0
    /\ ops = 0
    /\ hist = NoHist
    /\ last = NoLast

\* the production start with CLUSTER_WORKERS unset
Init == InitWith({<<>>}, {Production})

\* validateEnv: CLUSTER_WORKERS as the start script gets it, the default
\* 'auto' replaced by os.cpus().length
ValidateEnv(raw) == IF raw = <<>> THEN NumCPUs ELSE raw[1]

\* the observation a handler leaves behind
Did(op, arg, forked, signalled, messaged) ==
    [op |-> op, arg |-> arg, size0 |-> Len(workers), forked |-> forked,
     signalled |-> signalled, messaged |-> messaged]

----------------------------------------------------------------------------
\* forkWorker: cluster.fork() gives the next id, the registry records it

\* a registry keyed by slot number, not by worker.id
ForkWorkerSlot(reg, id) == MapSet(reg, Len(reg) + 1)

ForkWorker(reg, id) == MapSet(reg, id)

RECURSIVE ForkN(_, _, _)
ForkN(reg, id, k) ==
    IF k <= 0 THEN reg ELSE ForkN(ForkWorker(reg, id), id + 1, k - 1)

NewIds(k) == nextId..(nextId + k - 1)

Ext(f, k, v) == [w \in 1..(nextId + k - 1) |-> IF w < nextId THEN f[w] ELSE v]

\* k calls of forkWorker in a row
Fork(k) ==
    /\ workers' = ForkN(workers, nextId, k)
    /\ nextId' = nextId + k
    /\ st' = Ext(st, k, "run")
    /\ shutdownMsgs' = Ext(shutdownMsgs, k, 0)

\* worker.kill('SIGTERM') for every worker of T
Kill(T) == killed \cup T

----------------------------------------------------------------------------
\* startMaster: fork numCPUs workers, install the handlers and the interval

StartMaster ==
    /\ ~started /\ ~procExited /\ last.op = "none"
    /\ IF Master
       THEN /\ Fork(NumCPUs)
            /\ started' = TRUE
            /\ last' = Did("startMaster", 0, NewIds(NumCPUs), {}, {})
       ELSE /\ last' = Did("startMaster", 0, {}, {}, {})
            /\ UNCHANGED <<workers, nextId, st, shutdownMsgs, started>>
    /\ UNCHANGED <<clusterWorkers, env, wk, isMaster, killed, timers, aged, waits, procExited, ends,
                   ops, hist>>

\* cluster.on('online'): the worker is set in the registry again.  A
\* worker's events come in order (online before disconnect and exit), so
\* the worker is running; 'fork' and 'listening' only log.
Online(w) ==
    /\ started /\ ~procExited
    /\ st[w] = "run"
    /\ workers' = MapSet(workers, w)
    /\ UNCHANGED <<clusterWorkers, env, wk, isMaster, started, nextId, st, killed, shutdownMsgs, timers,
                   aged, waits, procExited, ends, ops, hist, last>>

----------------------------------------------------------------------------
\* the end of a worker as the master sees it

\* a running worker may end at any time: signalled, told to shut down, or
\* by a crash; the first event of its end counts it
EndCount(w) == IF st[w] = "run" THEN ends + 1 ELSE ends

\* a wait that is over at the first 'disconnect' of any worker
ResolveAny(ws, w) == {[c EXCEPT !.left = {}] : c \in ws}

\* worker.once('disconnect', resolve): w's 'disconnect' settles its promise
\* in every pending call
Resolve(ws, w) == {[c EXCEPT !.left = @ \ {w}] : c \in ws}

\* Promise.allSettled: some call has all its promises settled
Settled(ws) == \E c \in ws : c.left = {}

\* cluster.on('disconnect'), after the worker's own once('disconnect')
\* listeners; a call whose wait is over goes on to process.exit(0)
Disconnect(w, max) ==
    /\ started /\ ~procExited
    /\ st[w] \in {"run", "exit"}
    /\ st[w] = "run" => ends < max
    /\ ends' = EndCount(w)
    /\ st' = [st EXCEPT ![w] = IF st[w] = "run" THEN "disc" ELSE "gone"]
    /\ workers' = MapDelete(workers, w)
    /\ waits' = Resolve(waits, w)
    /\ procExited' = Settled(Resolve(waits, w))
    /\ last' = Did("disconnect", w, {}, {}, {})
    /\ UNCHANGED <<clusterWorkers, env, wk, isMaster, started, nextId, killed, shutdownMsgs, timers,
                   aged, ops, hist>>

\* an exit handler that arms no timer
ArmNone(ts, w) == ts

\* setTimeout(..., 1000) in the exit handler: one more pending timer
Arm(ts, w) == ts \cup {w}

\* cluster.on('exit'): drop the worker, arm the 1000 ms replacement timer
Exit(w, max) ==
    /\ started /\ ~procExited
    /\ st[w] \in {"run", "disc"}
    /\ st[w] = "run" => ends < max
    /\ ends' = EndCount(w)
    /\ st' = [st EXCEPT ![w] = IF st[w] = "run" THEN "exit" ELSE "gone"]
    /\ workers' = MapDelete(workers, w)
    /\ timers' = Arm(timers, w)
    /\ last' = Did("exit", w, {}, {}, {})
    /\ UNCHANGED <<clusterWorkers, env, wk, isMaster, started, nextId, killed, shutdownMsgs, aged,
                   waits, procExited, ops, hist>>

OnDisconnect(w) == Disconnect(w, MaxEnds)

OnExit(w) == Exit(w, MaxEnds)

\* the setTimeout callback of the exit handler
ReplaceTimer(w) ==
    /\ started /\ ~procExited
    /\ w \in timers
    /\ Fork(1)
    /\ timers' = timers \ {w}
    /\ aged' = aged \ {w}
    /\ hist' = [hist EXCEPT !.replaced = @ \cup {w}]
    /\ last' = Did("replace", w, NewIds(1), {}, {})
    /\ UNCHANGED <<clusterWorkers, env, wk, isMaster, started, killed, waits, procExited, ends, ops>>

----------------------------------------------------------------------------
\* the master-only operations return at once in a worker process

Ready == ~procExited /\ (started \/ ~isMaster)

\* a tick that forks the whole target when it is short
ShortfallTarget(activeWorkers, expectedWorkers) ==
    IF activeWorkers < expectedWorkers THEN expectedWorkers ELSE 0

\* monitorWorkers: how many workers the health tick forks
Shortfall(activeWorkers, expectedWorkers) ==
    IF activeWorkers < expectedWorkers
    THEN expectedWorkers - activeWorkers ELSE 0

\* the registered workers with a connected channel
ConnectedOf(reg) == {w \in Range(reg) : Connected(w)}

\* a count of every worker ever forked
StatsTotalForked(reg) == nextId - 1

\* total: this.workers.size
StatsTotal(reg) == Len(reg)

\* a count of every worker of the cluster with an open channel
StatsActiveForked(reg) == Cardinality({w \in Forked : Connected(w)})

\* active: the registry values with process.connected
StatsActive(reg) == Cardinality(ConnectedOf(reg))

\* getStats(): null in a worker process; in the master the worker counts
\* and the CPU count (the null result is the field null, so that both
\* results are records)
GetStats ==
    [null |-> ~Master,
     workers |-> IF Master
                 THEN [total    |-> StatsTotal(workers),
                       expected |-> NumCPUs,
                       active   |-> StatsActive(workers)]
                 ELSE [total |-> 0, expected |-> 0, active |-> 0],
     cpus |-> IF Master THEN NumCPUs ELSE 0]

\* a tick that messages only the workers registered before it forked
HealthTargetsOld(reg, new) == ConnectedOf(reg)

\* this.workers.forEach after the forks: the connected entries, the
\* workers forked in this tick (new) included
HealthTargets(reg, new) == ConnectedOf(reg) \cup new

\* monitorWorkers, run by the 30000 ms interval.  A replacement timer lasts
\* 1000 ms, so a timer that saw one tick fires before the next tick.
\* a call of getStats(), observed: it reads and returns
GetStatsCall ==
    /\ Ready
    /\ last' = Did("getStats", GetStats.workers.active, {}, {}, {})
    /\ UNCHANGED <<clusterWorkers, env, wk, isMaster, started, workers,
                   nextId, st, killed, shutdownMsgs, timers, aged, waits,
                   procExited, ends, ops, hist>>

MonitorWorkers ==
    /\ Ready
    /\ aged = {}
    /\ IF Master
       THEN LET k == Shortfall(Len(workers), NumCPUs) IN
            /\ Fork(k)
            /\ last' = Did("monitor", 0, NewIds(k), {},
                           HealthTargets(workers, NewIds(k)))
       ELSE /\ last' = Did("monitor", 0, {}, {}, {})
            /\ UNCHANGED <<workers, nextId, st, shutdownMsgs>>
    /\ aged' = timers
    /\ UNCHANGED <<clusterWorkers, env, wk, isMaster, started, killed, timers, waits, procExited, ends,
                   ops, hist>>

\* restartWorkers: SIGTERM to every registered worker that is connected
RestartTargets(reg) == ConnectedOf(reg)

RestartWorkers ==
    /\ Ready
    /\ ops < MaxOps
    /\ ops' = ops + 1
    /\ IF Master
       THEN LET T == RestartTargets(workers) IN
            /\ killed' = Kill(T)
            /\ hist' = [hist EXCEPT !.restartKilled = @ \cup T]
            /\ last' = Did("restart", 0, {}, T, {})
       ELSE /\ last' = Did("restart", 0, {}, {}, {})
            /\ UNCHANGED <<killed, hist>>
    /\ UNCHANGED <<clusterWorkers, env, wk, isMaster, started, workers, nextId, st, shutdownMsgs,
                   timers, aged, waits, procExited, ends>>

\* a scale-up that forks count workers, not the difference
ToAddCount(count, currentCount) ==
    IF count > currentCount THEN count ELSE 0

\* scaleWorkers, scale up: the number of workers to fork
ToAdd(count, currentCount) ==
    IF count > currentCount THEN count - currentCount ELSE 0

\* scaleWorkers, scale down: the number of registry entries to visit
ToRemove(count, currentCount) ==
    IF count < currentCount THEN currentCount - count ELSE 0

\* a scale-down that takes the newest entries, not the oldest
ScaleDownLast(reg, toRemove) ==
    {reg[i] : i \in {j \in 1..Len(reg) : j > Len(reg) - toRemove
                                           /\ Connected(reg[j])}}

\* scaleWorkers, scale down: the first toRemove entries, when connected
ScaleDownTargets(reg, toRemove) ==
    {reg[i] : i \in {j \in 1..toRemove : j <= Len(reg) /\ Connected(reg[j])}}

ScaleWorkers(count) ==
    /\ Ready
    /\ ops < MaxOps
    /\ ops' = ops + 1
    /\ IF Master
       THEN LET add == ToAdd(count, Len(workers))
                T == ScaleDownTargets(workers, ToRemove(count, Len(workers)))
            IN
            /\ Fork(add)
            /\ killed' = Kill(T)
            /\ hist' = [hist EXCEPT !.scaleKilled = @ \cup T,
                                    !.scaleN = Len(workers),
                                    !.scaleK = count]
            /\ last' = Did("scale", count, NewIds(add), T, {})
       ELSE /\ last' = Did("scale", count, {}, {}, {})
            /\ UNCHANGED <<workers, nextId, st, killed, shutdownMsgs, hist>>
    /\ UNCHANGED <<clusterWorkers, env, wk, isMaster, started, timers, aged, waits, procExited, ends>>

----------------------------------------------------------------------------
\* shutdownGracefully up to its await, or to process.exit(0) when it has
\* nothing to wait for; c is the state the call finds

\* a call that messages every worker ever forked
ShutdownEveryone(reg) == Forked

\* the workers one call sends 'shutdown' to and waits for
ShutdownTargets(reg) == ConnectedOf(reg)

\* a call that messages and waits, and never exits when there is nobody
\* to wait for
ShutdownCallWaits(c) ==
    IF c.exited THEN c
    ELSE LET T == ShutdownTargets(workers) IN
         [msgs |-> [w \in DOMAIN c.msgs |->
                      IF w \in T THEN c.msgs[w] + 1 ELSE c.msgs[w]],
          waits |-> c.waits \cup {[k |-> T, left |-> T]},
          exited |-> FALSE]

ShutdownCall(c) ==
    IF c.exited THEN c
    ELSE LET T == ShutdownTargets(workers) IN
         [msgs |-> [w \in DOMAIN c.msgs |->
                      IF w \in T THEN c.msgs[w] + 1 ELSE c.msgs[w]],
          waits |-> c.waits \cup {[k |-> T, left |-> T]},
          exited |-> T = {}]

Now == [msgs |-> shutdownMsgs, waits |-> waits, exited |-> procExited]

Shutdown(c, op, arg) ==
    /\ shutdownMsgs' = c.msgs
    /\ waits' = c.waits
    /\ procExited' = c.exited
    /\ hist' = [hist EXCEPT !.shutdown = TRUE]
    /\ last' = Did(op, arg, {}, {},
                   {w \in DOMAIN c.msgs : c.msgs[w] > shutdownMsgs[w]})
    /\ UNCHANGED <<clusterWorkers, env, wk, isMaster, started, workers, nextId, st, killed, timers,
                   aged, ends>>

\* one call of shutdownGracefully
ShutdownGracefully ==
    /\ Ready
    /\ ops < MaxOps
    /\ ops' = ops + 1
    /\ Shutdown(ShutdownCall(Now), "shutdown", 0)

\* the listeners of one signal: startMaster's, then the start script's
SignalHandlers(c) == ShutdownCall(ShutdownCall(c))

\* SIGTERM or SIGINT delivered to the master
Signal(sig) ==
    /\ started /\ ~procExited
    /\ ops < MaxOps
    /\ ops' = ops + 1
    /\ Shutdown(SignalHandlers(Now), sig, 0)

----------------------------------------------------------------------------

Next ==
    \/ StartMaster
    \/ \E w \in Forked : Online(w)
    \/ \E w \in Forked : OnDisconnect(w)
    \/ \E w \in Forked : OnExit(w)
    \/ \E w \in Forked : ReplaceTimer(w)
    \/ MonitorWorkers
    \/ RestartWorkers
    \/ \E count \in 0..MaxCount : ScaleWorkers(count)
    \/ ShutdownGracefully
    \/ \E sig \in Signals : Signal(sig)

Spec == Init /\ [][Next]_vars

----------------------------------------------------------------------------
\* the supervisor left to itself: workers crash, timers fire, the interval
\* ticks; no operator call and no signal

Crash(w) == Disconnect(w, MaxCrashes) \/ Exit(w, MaxCrashes)

HealNext ==
    \/ StartMaster
    \/ \E w \in Forked : Online(w)
    \/ \E w \in Forked : Crash(w)
    \/ \E w \in Forked : ReplaceTimer(w)
    \/ MonitorWorkers

\* a started timer fires, the interval keeps ticking, and both events of a
\* worker that ended reach the master
HealFairness ==
    /\ WF_vars(StartMaster)
    /\ WF_vars(MonitorWorkers)
    /\ WF_vars(\E w \in Forked : ReplaceTimer(w))
    /\ WF_vars(\E w \in Forked : st[w] # "run" /\ Crash(w))

HealSpec == Init /\ [][HealNext]_vars /\ HealFairness

\* every value CLUSTER_WORKERS can have, then the master under crashes
ConfigInit == InitWith(Configs, {Production})

ConfigSpec == ConfigInit /\ [][HealNext]_vars

\* process.exit(code) in the worker: the requests in flight are cut
WorkerExit(w, code, cause) ==
    [w EXCEPT !.phase = "exited", !.code = code, !.cause = cause,
              !.dropped = w.inflight, !.inflight = 0]

\* the server of this process is loaded and the process is running
WorkerAlive == wk.phase \in {"connecting", "listening", "closing"}

\* cluster.fork() k times with no registry: the server module keeps none
ServerFork(k) ==
    /\ nextId' = nextId + k
    /\ st' = Ext(st, k, "run")
    /\ shutdownMsgs' = Ext(shutdownMsgs, k, 0)

\* the body of the server module: its master branch forks numCPUs workers
\* and serves nothing, its other branch builds the server and connects
ServerLoad ==
    IF ServerForks
    THEN /\ wk' = [wk EXCEPT !.phase = "forking"]
         /\ ServerFork(NumCPUs)
    ELSE /\ wk' = [wk EXCEPT !.phase = "connecting"]
         /\ UNCHANGED <<nextId, st, shutdownMsgs>>

\* the worker branch of the start script: message handler, then
\* startWorker() requires the server and installs the fault handlers
StartWorker ==
    /\ ~Supervises /\ wk.phase = "off"
    /\ ServerLoad
    /\ UNCHANGED <<clusterWorkers, env, isMaster, started, workers, killed,
                   timers, aged, waits, procExited, ends, ops, hist, last>>

\* startWorker(): require('./server') throws, the catch calls
\* process.exit(1)
StartWorkerFails ==
    /\ ~Supervises /\ wk.phase = "off"
    /\ wk' = WorkerExit(wk, 1, "load")
    /\ UNCHANGED <<clusterWorkers, env, masterVars>>

\* connectDB().then(() => server.listen(PORT, ...))
WorkerListen ==
    /\ WorkerAlive /\ wk.phase = "connecting"
    /\ wk' = [wk EXCEPT !.phase = "listening"]
    /\ UNCHANGED <<clusterWorkers, env, masterVars>>

\* connectDB() rejects: process.exit(1)
WorkerDbFails ==
    /\ WorkerAlive /\ wk.phase = "connecting"
    /\ wk' = WorkerExit(wk, 1, "db")
    /\ UNCHANGED <<clusterWorkers, env, masterVars>>

\* the listening server takes a request
WorkerAccept ==
    /\ WorkerAlive /\ wk.phase = "listening"
    /\ wk.inflight + wk.served < MaxRequests
    /\ wk' = [wk EXCEPT !.inflight = @ + 1]
    /\ UNCHANGED <<clusterWorkers, env, masterVars>>

\* a request in flight is answered
WorkerFinish ==
    /\ WorkerAlive /\ wk.inflight > 0
    /\ wk' = [wk EXCEPT !.inflight = @ - 1, !.served = @ + 1]
    /\ UNCHANGED <<clusterWorkers, env, masterVars>>

\* process.on('SIGTERM'/'SIGINT') of the server: server.close(callback)
WorkerOnSignal ==
    /\ WorkerAlive /\ wk.phase \in {"connecting", "listening"}
    /\ wk' = [wk EXCEPT !.phase = "closing"]
    /\ UNCHANGED <<clusterWorkers, env, masterVars>>

\* the callback of server.close, once no connection is left: process.exit(0)
WorkerClosed ==
    /\ WorkerAlive /\ wk.phase = "closing" /\ wk.inflight = 0
    /\ wk' = WorkerExit(wk, 0, "signal")
    /\ UNCHANGED <<clusterWorkers, env, masterVars>>

\* the master's end of the IPC channel closes (the master has ended); the
\* worker has not yet acted on it
WorkerChannelCloses ==
    /\ WorkerAlive /\ ~isMaster /\ wk.channel = "open"
    /\ wk' = [wk EXCEPT !.channel = "closed"]
    /\ UNCHANGED <<clusterWorkers, env, masterVars>>

\* a fault handler that logs and lets the worker go on
FaultLogged(w) == [w EXCEPT !.cause = "fault"]

\* process.on('uncaughtException'/'unhandledRejection'): process.exit(1)
FaultExit(w) == WorkerExit(w, 1, "fault")

\* the 'health-check' branch: process.send({type: 'health', ...}) with no
\* test of the channel and no callback.  On a closed channel the send
\* fails, the failure is emitted as an 'error' event nobody listens to,
\* and that uncaught exception runs the fault handler: process.exit(1)
HealthReply(w) ==
    IF w.channel = "open"
    THEN [w EXCEPT !.replies = @ + 1]
    ELSE WorkerExit(w, 1, "send")

\* process.on('message') of the worker; a message that was read before the
\* channel closed is still handled
WorkerOnMessage(msg) ==
    /\ WorkerAlive /\ ~isMaster
    /\ IF msg = "shutdown"
       THEN wk' = WorkerExit(wk, 0, "shutdown")
       ELSE /\ msg = "health-check"
            /\ wk.replies < MaxReplies
            /\ wk' = HealthReply(wk)
    /\ UNCHANGED <<clusterWorkers, env, masterVars>>

\* an exception nobody catches, or a rejection nobody handles
WorkerFault ==
    /\ WorkerAlive
    /\ wk' = FaultExit(wk)
    /\ UNCHANGED <<clusterWorkers, env, masterVars>>

WorkerNext ==
    \/ StartWorker
    \/ StartWorkerFails
    \/ WorkerChannelCloses
    \/ WorkerListen
    \/ WorkerDbFails
    \/ WorkerAccept
    \/ WorkerFinish
    \/ WorkerOnSignal
    \/ WorkerClosed
    \/ \E msg \in {"shutdown", "health-check"} : WorkerOnMessage(msg)
    \/ WorkerFault

\* one worker process of the pool
WorkerInit == Init /\ ~isMaster

WorkerSpec == WorkerInit /\ [][WorkerNext]_vars

----------------------------------------------------------------------------
\* the start script from its first line: the role test picks the master
\* branch or the worker branch, under every environment

\* the master branch of the start script: new LoadBalancer().startMaster()
StartSupervisor == Supervises /\ StartMaster

DispatchInit == InitWith({<<>>}, Envs)

DispatchNext ==
    \/ StartSupervisor
    \/ \E w \in Forked : Online(w)
    \/ \E w \in Forked : Crash(w)
    \/ \E w \in Forked : ReplaceTimer(w)
    \/ started /\ MonitorWorkers
    \/ WorkerNext

DispatchSpec == DispatchInit /\ [][DispatchNext]_vars

----------------------------------------------------------------------------
\* the server module run on its own (node server.js): in a production
\* master it is a supervisor of its own, with no registry and no timer

RunServer ==
    /\ wk.phase = "off" /\ ~started
    /\ ServerLoad
    /\ UNCHANGED <<clusterWorkers, env, isMaster, started, workers, killed,
                   timers, aged, waits, procExited, ends, ops, hist, last>>

\* an exit handler of the server module that replaces nothing
ServerOnExitOnly(w) ==
    /\ wk.phase = "forking"
    /\ st[w] = "run" /\ ends < MaxCrashes
    /\ ends' = ends + 1
    /\ st' = [st EXCEPT ![w] = "gone"]
    /\ last' = Did("serverExit", w, {}, {}, {})
    /\ UNCHANGED <<clusterWorkers, env, wk, isMaster, started, workers,
                   nextId, shutdownMsgs, killed, timers, aged, waits,
                   procExited, ops, hist>>

\* cluster.on('exit') of the server module: cluster.fork() in the handler
ServerOnExit(w) ==
    /\ wk.phase = "forking"
    /\ st[w] = "run" /\ ends < MaxCrashes
    /\ ends' = ends + 1
    /\ nextId' = nextId + 1
    /\ st' = [Ext(st, 1, "run") EXCEPT ![w] = "gone"]
    /\ shutdownMsgs' = Ext(shutdownMsgs, 1, 0)
    /\ last' = Did("serverExit", w, NewIds(1), {}, {})
    /\ UNCHANGED <<clusterWorkers, env, wk, isMaster, started, workers,
                   killed, timers, aged, waits, procExited, ops, hist>>

ServerInit == InitWith({<<>>}, Envs)

ServerNext ==
    \/ RunServer
    \/ \E w \in Forked : ServerOnExit(w)
    \/ WorkerListen
    \/ WorkerDbFails
    \/ WorkerAccept
    \/ WorkerFinish
    \/ WorkerOnSignal
    \/ WorkerClosed

ServerSpec == ServerInit /\ [][ServerNext]_vars

----------------------------------------------------------------------------
\* cluster.fork() may throw.  forkWorker catches nothing, so the exception
\* leaves the handler that called it; the master installs no
\* 'uncaughtException' handler, so out of startMaster, a timer callback or
\* the interval callback it ends the process.

\* the master after an exception left op with j workers forked before it
Thrown(op, arg, j, dead) ==
    /\ Fork(j)
    /\ procExited' = dead
    /\ hist' = [hist EXCEPT !.thrown = TRUE]
    /\ last' = Did(op, arg, NewIds(j), {}, {})

StartMasterThrows ==
    /\ ~started /\ ~procExited /\ last.op = "none" /\ Master
    /\ \E j \in 0..(NumCPUs - 1) : Thrown("startMaster", 0, j, TRUE)
    /\ UNCHANGED <<clusterWorkers, env, wk, isMaster, started, killed,
                   timers, aged, waits, ends, ops>>

ReplaceTimerThrows(w) ==
    /\ started /\ ~procExited
    /\ w \in timers
    /\ Thrown("replace", w, 0, TRUE)
    /\ timers' = timers \ {w}
    /\ aged' = aged \ {w}
    /\ UNCHANGED <<clusterWorkers, env, wk, isMaster, started, killed,
                   waits, ends, ops>>

MonitorWorkersThrows ==
    /\ Ready /\ Master
    /\ aged = {}
    /\ \E j \in 0..(Shortfall(Len(workers), NumCPUs) - 1) :
          Thrown("monitor", 0, j, TRUE)
    /\ aged' = timers
    /\ UNCHANGED <<clusterWorkers, env, wk, isMaster, started, killed,
                   timers, waits, ends, ops>>

\* out of scaleWorkers the exception goes to the caller, who may catch it
ScaleWorkersThrows(count) ==
    /\ Ready /\ Master
    /\ ops < MaxOps
    /\ ops' = ops + 1
    /\ \E j \in 0..(ToAdd(count, Len(workers)) - 1) :
          \E dead \in BOOLEAN : Thrown("scale", count, j, dead)
    /\ UNCHANGED <<clusterWorkers, env, wk, isMaster, started, killed,
                   timers, aged, waits, ends>>

FailNext ==
    \/ StartMaster
    \/ StartMasterThrows
    \/ \E w \in Forked : Online(w)
    \/ \E w \in Forked : OnDisconnect(w)
    \/ \E w \in Forked : OnExit(w)
    \/ \E w \in Forked : ReplaceTimer(w)
    \/ \E w \in Forked : ReplaceTimerThrows(w)
    \/ MonitorWorkers
    \/ MonitorWorkersThrows
    \/ \E count \in 0..MaxCount : ScaleWorkers(count)
    \/ \E count \in 0..MaxCount : ScaleWorkersThrows(count)

\* the master process of the production start
MasterInit == Init /\ isMaster = TRUE

FailSpec == MasterInit /\ [][FailNext]_vars

----------------------------------------------------------------------------
\* the lifecycle events of the workers, each observed

\* cluster.on('fork') and cluster.on('listening'): a log line
OnLifecycle(w, ev) ==
    /\ started /\ ~procExited
    /\ st[w] = "run"
    /\ last' = Did(ev, w, {}, {}, {})
    /\ UNCHANGED <<clusterWorkers, env, wk, isMaster, started, workers,
                   nextId, st, killed, shutdownMsgs, timers, aged, waits,
                   procExited, ends, ops, hist>>

\* cluster.on('online'), once per worker, observed
OnlineSeen(w) ==
    /\ started /\ ~procExited
    /\ st[w] = "run" /\ w \notin hist.online
    /\ workers' = MapSet(workers, w)
    /\ hist' = [hist EXCEPT !.online = @ \cup {w}]
    /\ last' = Did("online", w, {}, {}, {})
    /\ UNCHANGED <<clusterWorkers, env, wk, isMaster, started, nextId, st,
                   killed, shutdownMsgs, timers, aged, waits, procExited,
                   ends, ops>>

LifeNext ==
    \/ StartMaster
    \/ \E w \in Forked : \E ev \in {"fork", "listening"} : OnLifecycle(w, ev)
    \/ \E w \in Forked : OnlineSeen(w)
    \/ \E w \in Forked : OnDisconnect(w)
    \/ \E w \in Forked : OnExit(w)
    \/ \E w \in Forked : ReplaceTimer(w)
    \/ MonitorWorkers

LifeSpec == MasterInit /\ [][LifeNext]_vars

----------------------------------------------------------------------------
\* the statistics read at any moment of a master under crashes
\* (the start script reads them every 60000 ms)

StatsNext ==
    \/ HealNext
    \/ GetStatsCall

StatsSpec == Init /\ [][StatsNext]_vars

TypeOK ==
    /\ isMaster \in BOOLEAN /\ started \in BOOLEAN /\ procExited \in BOOLEAN
    /\ Range(workers) \subseteq Forked
    /\ DOMAIN st = Forked /\ killed \subseteq Forked
    /\ DOMAIN shutdownMsgs = Forked
    /\ \A w \in Forked : st[w] \in {"run", "disc", "exit", "gone"}
    /\ aged \subseteq timers /\ timers \subseteq Forked
    /\ \A c \in waits : c.left \subseteq c.k /\ c.k \subseteq Forked
    /\ ops \in 0..MaxOps
    /\ clusterWorkers \in Configs
    /\ env \in Envs
    /\ wk.phase \in {"off", "forking", "connecting", "listening", "closing",
                     "exited"}
    /\ wk.channel \in {"open", "closed"}
    /\ wk.code \in {-1, 0, 1} /\ (wk.code = -1 <=> wk.phase # "exited")
    /\ wk.inflight + wk.served + wk.dropped <= MaxRequests
    /\ wk.replies \in 0..MaxReplies

----------------------------------------------------------------------------
\* C1: a worker that scaleWorkers signalled during a scale-down is marked as
\* expected to exit, so its exit event arms no replacement timer and no
\* replacement is ever forked for it.
C1_ScaleDownExitNotReplaced ==
    \A w \in hist.scaleKilled : w \notin timers /\ w \notin hist.replaced

\* C2: once shutdownGracefully has started, no replacement timer forks a
\* worker, whether it was armed before or after the shutdown began.
C2_NoReplacementDuringShutdown ==
    ~(hist.shutdown /\ last.op = "replace" /\ last.forked # {})

\* C3: after the exit of a crashed worker, with no scale, restart or
\* shutdown in play, the registry size eventually equals the target again.
CrashHandled ==
    /\ last.op = "exit" /\ Crashed(last.arg)
    /\ ~hist.shutdown /\ hist.scaleK = -1 /\ hist.restartKilled = {}

C3_CrashLeadsToTarget == CrashHandled ~> (Len(workers) = NumCPUs)

\* C4: with no scaleWorkers call, the replacement timers and the health
\* ticks together never bring the registry above the target worker count.
C4_NeverAboveTarget == hist.scaleK = -1 => Len(workers) <= NumCPUs

C6_SignalShutsDownOnce ==
    (last.op \in Signals /\ ops = 1) =>
        \A w \in last.messaged : shutdownMsgs[w] = 1

\* C7: after a single scaleWorkers(k) on n > k workers, once the signalled
\* workers have exited and nothing else has ended, the registry size is k.
C7_ScaleDownStable ==
    ( /\ ops = 1 /\ hist.scaleK >= 0 /\ hist.scaleN > hist.scaleK
      /\ \A w \in hist.scaleKilled : st[w] \in {"exit", "gone"}
      /\ ends = Cardinality(hist.scaleKilled) )
    => Len(workers) = hist.scaleK

\* C8: a scale-down from n to k workers signals exactly the first n - k
\* registry entries, in insertion order, and those workers hold the signal.
C8_ScaleDownFirstEntries ==
    (isMaster /\ last.op = "scale" /\ last.arg < last.size0) =>
        /\ last.signalled = {workers[i] : i \in 1..(last.size0 - last.arg)}
        /\ Cardinality(last.signalled) = last.size0 - last.arg
        /\ last.signalled \subseteq killed
        /\ last.forked = {}

\* C8 witness: a scale-down that signals some and spares some workers.
C8_Witness ==
    /\ isMaster /\ last.op = "scale"
    /\ last.arg >= 1 /\ last.size0 - last.arg >= 2

\* C9: a scale-up from n to k workers forks exactly k - n workers, appended
\* to the registry, and signals, messages or removes no earlier worker.
C9_ScaleUpStep ==
    (isMaster /\ last'.op = "scale" /\ last'.arg > Len(workers)) =>
        /\ nextId' = nextId + (last'.arg - Len(workers))
        /\ last'.forked = nextId..(nextId' - 1)
        /\ workers' = workers \o [i \in 1..(nextId' - nextId) |-> nextId + i - 1]
        /\ killed' = killed
        /\ \A w \in Forked : st'[w] = st[w] /\ shutdownMsgs'[w] = shutdownMsgs[w]

C9_ScaleUpForksDifference == [][C9_ScaleUpStep]_vars

\* C9 witness: a scale-up of a pool that had workers, by two workers.
C9_Witness ==
    /\ isMaster /\ last.op = "scale"
    /\ last.size0 >= 1 /\ last.arg - last.size0 >= 2
    /\ Len(workers) = last.arg

\* C10: after a single restartWorkers on n workers, once all n have ended
\* and no replacement timer is pending, the registry holds exactly n
\* workers, none of them a restarted one.
C10_RestartSteadyState ==
    ( /\ ops = 1 /\ last.op # "restart" /\ hist.restartKilled # {}
      /\ \A w \in hist.restartKilled : st[w] = "gone"
      /\ ends = Cardinality(hist.restartKilled)
      /\ timers = {} )
    => /\ Len(workers) = Cardinality(hist.restartKilled)
       /\ Range(workers) \cap hist.restartKilled = {}

\* C11: after a single restartWorkers, as long as only restarted workers
\* have ended, some registered worker is still connected: the pool is never
\* taken down all at once.
C11_RollingRestart ==
    ( /\ ops = 1 /\ hist.restartKilled # {}
      /\ \A w \in Forked : st[w] # "run" => w \in hist.restartKilled )
    => ConnectedOf(workers) # {}

\* C12: outside shutdown, the exit handler of a worker arms exactly one
\* replacement timer for it and forks nothing itself, and the timer, when
\* it fires, calls forkWorker exactly once.
C12_ExitStep ==
    /\ (~hist.shutdown /\ last'.op = "exit" /\ st' # st) =>
          /\ last'.arg \notin timers \cup hist.replaced
          /\ timers' = timers \cup {last'.arg}
          /\ nextId' = nextId
    /\ (~hist.shutdown /\ last'.op = "replace" /\ nextId' # nextId) =>
          /\ last'.arg \in timers
          /\ timers' = timers \ {last'.arg}
          /\ nextId' = nextId + 1
          /\ Len(workers') = Len(workers) + 1

C12_OneReplacementPerExit == [][C12_ExitStep]_vars

\* C12 witness: a crashed worker's exit was handled outside shutdown and
\* the replacement of an earlier exit has been forked.
C12_Witness ==
    /\ last.op = "exit" /\ Crashed(last.arg) /\ ~hist.shutdown
    /\ last.arg \in timers /\ hist.replaced # {}

\* C13 as stated: the registry is the set of forked workers whose exit
\* event has not been handled, a disconnected worker included.
C13_RegistryUntilExit ==
    Range(workers) = {w \in Forked : st[w] \in {"run", "disc"}}

\* C13 amended: the registry is the set of forked workers of which neither
\* the disconnect nor the exit event has been handled, each listed once.
C13_RegistryUntilFirstEvent ==
    /\ Range(workers) = {w \in Forked : st[w] = "run"}
    /\ Len(workers) = Cardinality(Range(workers))

\* C13 witness: a worker has disconnected, has not exited, and is gone
\* from the registry while another worker is registered.
C13_Witness ==
    /\ \E w \in Forked : st[w] = "disc" /\ w \notin Range(workers)
    /\ workers # <<>>

\* C14: once shutdownGracefully has started, a health tick forks nothing.
C14_NoHealDuringShutdown ==
    ~(hist.shutdown /\ last.op = "monitor" /\ last.forked # {})

\* C15: a call of shutdownGracefully that follows an earlier one forks no
\* worker, leaves the registry alone, and sends 'shutdown' only to workers
\* whose channel is connected.
ShutdownOps == Signals \cup {"shutdown"}

C15_SecondCallStep ==
    (hist.shutdown /\ last'.op \in ShutdownOps /\ ops' # ops) =>
        /\ nextId' = nextId
        /\ workers' = workers
        /\ \A w \in Forked :
              shutdownMsgs'[w] # shutdownMsgs[w] => Connected(w)

C15_SecondShutdownHarmless == [][C15_SecondCallStep]_vars

\* C15 witness: a second call ran while one messaged worker had already
\* disconnected and another was still connected.
C15_Witness ==
    /\ last.op \in ShutdownOps /\ ops = 2 /\ last.messaged # {}
    /\ \E w \in Forked : ~Connected(w) /\ shutdownMsgs[w] = 1

\* C16: the master has not exited while a worker that was sent 'shutdown'
\* is still running with its disconnect event not fired.
C16_StuckWorkerBlocksExit ==
    procExited => \A w \in Forked : shutdownMsgs[w] >= 1 => st[w] # "run"

\* C18: in a started master getStats reports the registry size as total,
\* the target as expected and the number of registered workers whose
\* channel is connected as active; right after a clean start all three
\* are the target.
C18_StatsCounts ==
    (isMaster /\ started) =>
        /\ ~GetStats.null
        /\ GetStats.workers.total = Len(workers)
        /\ GetStats.workers.expected = NumCPUs
        /\ GetStats.workers.active =
              Cardinality({w \in Range(workers) : Connected(w)})
        /\ GetStats.workers.active <= GetStats.workers.total
        /\ last.op = "startMaster" =>
              /\ GetStats.workers.total = NumCPUs
              /\ GetStats.workers.active = NumCPUs

\* C18 witness: a started master one worker short of its target, with
\* dead workers behind it.
C18_Witness ==
    /\ isMaster /\ started /\ ~procExited
    /\ GetStats.workers.total = NumCPUs - 1
    /\ GetStats.workers.active = NumCPUs - 1
    /\ nextId > NumCPUs + 1

\* C19: in a worker process getStats returns null and startMaster,
\* monitorWorkers, restartWorkers and scaleWorkers fork nothing, signal
\* nothing, message nothing and leave the registry empty.
C19_WorkerProcessInert ==
    ~isMaster =>
        /\ GetStats.null
        /\ workers = <<>> /\ nextId = 1 /\ ~started
        /\ killed = {} /\ timers = {}
        /\ last.op \in {"startMaster", "monitor", "restart", "scale"} =>
              last.forked = {} /\ last.signalled = {} /\ last.messaged = {}

\* C19 witness: a worker process in which startMaster and two operator
\* calls have run, the last one scaleWorkers with a positive count.
C19_Witness ==
    /\ ~isMaster /\ ops = 2
    /\ last.op = "scale" /\ last.arg > 0

\* C17: the target of the master is CLUSTER_WORKERS when it is configured
\* and the CPU count otherwise: startMaster forks that many workers, a
\* health tick leaves at least that many registered, and getStats reports
\* it as expected.
C17_TargetFromConfig ==
    (isMaster /\ started) =>
        /\ GetStats.workers.expected = ValidateEnv(clusterWorkers)
        /\ last.op = "startMaster" =>
              Cardinality(last.forked) = ValidateEnv(clusterWorkers)
        /\ last.op = "monitor" =>
              Len(workers) >= ValidateEnv(clusterWorkers)

\* C20: a worker that exited on the 'shutdown' message exited with code 0
\* and had finished the requests it had in flight.
C20_ShutdownDrainsWorker ==
    wk.cause = "shutdown" =>
        wk.phase = "exited" /\ wk.code = 0 /\ wk.dropped = 0

\* C24: an id given by a fork was never given before: every registry
\* entry a step adds is an id that no earlier worker had, one entry per
\* fork, a replacement never takes the id of the worker it replaces, and
\* no two registry entries share an id.
C24_Step ==
    /\ (Range(workers') \ Range(workers)) \cap Forked = {}
    /\ nextId' >= nextId
    /\ isMaster => Cardinality(Range(workers') \ Range(workers))
                      = nextId' - nextId
    /\ Len(workers') = Cardinality(Range(workers'))
    /\ last'.op = "replace" => last'.arg \notin last'.forked

C24_IdsNeverReused == [][C24_Step]_vars

\* C24 witness: a dead worker's replacement is registered under a new id
\* next to a worker of the first generation.
C24_Witness ==
    /\ last.op = "replace" /\ st[last.arg] = "gone"
    /\ last.forked \subseteq Range(workers)
    /\ \E w \in Range(workers) : w <= NumCPUs

\* C26: a health tick that finds s registered workers and target t forks
\* t - s workers when s < t and none otherwise, and never signals a worker.
C26_Step ==
    (isMaster /\ last'.op = "monitor") =>
        /\ nextId' - nextId =
              (IF Len(workers) < NumCPUs THEN NumCPUs - Len(workers) ELSE 0)
        /\ Len(workers') = Len(workers) + (nextId' - nextId)
        /\ killed' = killed /\ last'.signalled = {}
        /\ \A w \in Forked : st'[w] = st[w]

C26_TickForksShortfall == [][C26_Step]_vars

\* C26 witness: a tick found the registry one short and forked one.
C26_Witness ==
    /\ isMaster /\ last.op = "monitor"
    /\ last.size0 = NumCPUs - 1 /\ Cardinality(last.forked) = 1

\* C27: a health tick sends 'health-check' to exactly the registered
\* workers with a connected channel, those it has just forked included,
\* to no disconnected worker, and opens no wait.
C27_Step ==
    (isMaster /\ last'.op = "monitor" /\ last' # last) =>
        /\ last'.messaged = {w \in Range(workers') : st'[w] \in {"run", "exit"}}
        /\ last'.forked \subseteq last'.messaged
        /\ \A w \in last'.messaged : st'[w] \notin {"disc", "gone"}
        /\ waits' = waits /\ procExited' = procExited

C27_TickMessagesConnected == [][C27_Step]_vars

\* C27 witness: a tick forked a worker and messaged it and an older
\* worker, while a disconnected worker got nothing.
C27_Witness ==
    /\ isMaster /\ last.op = "monitor"
    /\ last.forked # {} /\ last.messaged \ last.forked # {}
    /\ \E w \in Forked : st[w] = "disc" /\ w \notin last.messaged

\* C28: the id of a worker is absent from the registry after its
\* disconnect event and after its exit event, both remove nothing but
\* that id, and the later of the two events leaves the registry unchanged.
C28_Step ==
    (last'.op \in {"disconnect", "exit"} /\ st' # st) =>
        /\ last'.arg \notin Range(workers')
        /\ Range(workers') = Range(workers) \ {last'.arg}
        /\ Len(workers') = Cardinality(Range(workers'))
        /\ st[last'.arg] # "run" => workers' = workers

C28_RemovalIdempotent == [][C28_Step]_vars

\* C28 witness: the exit of a worker that had disconnected was handled
\* while another worker was registered.
C28_Witness ==
    /\ last.op = "exit" /\ st[last.arg] = "gone"
    /\ workers # <<>>

\* C21: a fault in a worker (an uncaught exception, an unhandled
\* rejection, or the server module failing to load) ends the worker at
\* once with exit code 1, and an ended worker does nothing more.
C21_Step ==
    /\ wk'.cause \in {"fault", "load"} =>
          wk'.phase = "exited" /\ wk'.code = 1
    /\ wk.cause \in {"fault", "load"} => wk' = wk

C21_FaultIsFatal == [][C21_Step]_vars

\* C21 witness: a worker with served requests and one in flight ended on
\* a fault.
C21_Witness ==
    /\ wk.cause = "fault" /\ wk.phase = "exited"
    /\ wk.served > 0 /\ wk.dropped > 0

\* C22: handling 'health-check' never ends the worker, whatever the state
\* of its IPC channel.
C22_HealthCheckHarmless ==
    ~(wk.phase = "exited" /\ wk.cause = "send")

\* C23: an exception thrown by cluster.fork() leaves the master running.
C23_ForkFailureNotFatal ==
    hist.thrown => ~procExited

\* C25: a process runs the supervisor or the worker path, never both and
\* never the other one later: the supervisor runs only in a master with
\* clustering enabled and that process never loads the server; a process
\* on the worker path never forks and never supervises, the master branch
\* of the server module included.
C25_Step ==
    /\ ~(started' /\ wk'.phase # "off")
    /\ started' => Supervises /\ wk' = WorkerBoot
    /\ wk'.phase # "off" =>
          /\ ~Supervises /\ wk'.phase # "forking"
          /\ nextId' = 1 /\ workers' = <<>> /\ timers' = {}
    /\ started => started'
    /\ wk.phase # "off" => wk'.phase # "off"

C25_OneRolePath == [][C25_Step]_vars

\* C25 witness: a cluster master with clustering disabled has served a
\* request on the worker path.
C25_Witness ==
    /\ isMaster /\ ~EnableCluster(env)
    /\ wk.phase = "listening" /\ wk.served > 0

\* C29: no supervisor forks in the step that handles a worker's exit.
C29_Step ==
    (last'.op \in {"exit", "serverExit"} /\ st' # st) => nextId' = nextId

C29_NoForkAtExit == [][C29_Step]_vars

\* C30: a step that forks nothing adds no registry entry; the fork,
\* online and listening events leave the registry as it is; a worker whose
\* disconnect or exit was handled is never registered again.
C30_Step ==
    /\ nextId' = nextId =>
          /\ Range(workers') \subseteq Range(workers)
          /\ Len(workers') <= Len(workers)
    /\ (last'.op \in {"fork", "online", "listening"} /\ last' # last) =>
          workers' = workers
    /\ \A w \in Forked : st[w] # "run" => w \notin Range(workers')

C30_OnlyForkAdds == [][C30_Step]_vars

\* C30 witness: the online event of a replacement was handled after the
\* worker it replaces, itself once online, had been removed.
C30_Witness ==
    /\ last.op = "online" /\ last.arg > NumCPUs
    /\ \E w \in hist.online : st[w] = "gone" /\ w \notin Range(workers)
    /\ last.arg \in Range(workers)

\* C31: when the master has exited at the end of shutdownGracefully, no
\* registered worker has a connected channel.
C31_ExitLeavesNoWorker ==
    (procExited /\ ~hist.thrown) => ConnectedOf(workers) = {}

\* C32: no worker whose exit event has been handled is in the registry.
C32_NoDeadWorkerRegistered ==
    \A w \in Range(workers) : st[w] \notin {"exit", "gone"}

\* C32 witness: after a restartWorkers, a worker's exit has been handled,
\* its replacement is registered and a health tick has run.
C32_Witness ==
    /\ hist.restartKilled # {} /\ last.op = "monitor"
    /\ \E w \in hist.replaced : st[w] \in {"exit", "gone"}
    /\ workers # <<>>

\* C33: a call of shutdownGracefully that finds no registered worker with
\* a connected channel sends no message, opens no pending wait, and the
\* process has exited when it returns.
C33_Step ==
    ( /\ last'.op \in Signals \cup {"shutdown"} /\ ops' # ops
      /\ ~procExited /\ ConnectedOf(workers) = {} )
    => /\ shutdownMsgs' = shutdownMsgs
       /\ last'.messaged = {}
       /\ \A c \in waits' \ waits : c.k = {}
       /\ procExited'

C33_EmptyShutdownExits == [][C33_Step]_vars

\* C33 witness: a started master whose workers had all ended without a
\* message was shut down and exited at once.
C33_Witness ==
    /\ isMaster /\ started /\ procExited
    /\ last.op = "shutdown" /\ last.size0 = 0
    /\ \A w \in Forked : shutdownMsgs[w] = 0

\* C34: the statistics always have active <= total, and a call of
\* getStats changes neither the registry nor any worker.
C34_Step ==
    (last'.op = "getStats" /\ last' # last) =>
        UNCHANGED <<workers, nextId, st, killed, shutdownMsgs, timers,
                    waits, procExited>>

C34_StatsReadOnly ==
    /\ [](GetStats.workers.active <= GetStats.workers.total)
    /\ [][C34_Step]_vars

\* C34 witness: getStats was called in a master one worker short, while a
\* worker whose exit was handled still had its channel open.
C34_Witness ==
    /\ isMaster /\ last.op = "getStats"
    /\ GetStats.workers.total = NumCPUs - 1
    /\ \E w \in Forked : st[w] = "exit"

\* C35: in the server module's own master every handled exit forks one
\* replacement in the same step: the forks made are the CPU count plus
\* the exits handled, and the CPU count of workers is always running.
C35_Step ==
    (last'.op = "serverExit" /\ st' # st) =>
        /\ nextId' = nextId + 1
        /\ Cardinality(last'.forked) = 1
        /\ st'[last'.arg] = "gone"

C35_ServerAlwaysReplaces ==
    /\ [](wk.phase = "forking" =>
            /\ nextId - 1 = NumCPUs + ends
            /\ Cardinality({w \in Forked : st[w] = "run"}) = NumCPUs)
    /\ [][C35_Step]_vars

\* C35 witness: the server module's master has handled two exits, the
\* second one of a replacement.
C35_Witness ==
    /\ wk.phase = "forking" /\ last.op = "serverExit"
    /\ ends = 2 /\ last.arg > NumCPUs

====
